---- MODULE Spec2Model ----
(***************************************************************************)
(* River-level ingestion pipeline of ThamesRiverLevels:                    *)
(*   scripts/db_updater.py  store (save_readings, prune_old), update_once  *)
(*   scripts/flask_app.py   station registry, get_station_data, api_all    *)
(*   nrw_api/nrw_api.py     NRW adapter                                    *)
(*   scripts/db_plotly.py   load (range query of the store)                *)
(*   scripts/db_to_json.py  export_all_stations                            *)
(* Times are epoch seconds.  Values are integers standing for floats; NaN  *)
(* is a distinguished value.  An ISO-8601 string is the record of its wall *)
(* clock reading and its UTC offset; "NaT" is the string pandas prints for *)
(* a missing timestamp.                                                    *)
(***************************************************************************)
EXTENDS Integers, Sequences, FiniteSets, TLC

VARIABLES
    store,      \* table readings: set of rows
    now,        \* wall clock, epoch seconds (utc_now, time.time)
    last,       \* the last store call: op, arguments, return value, store before it
    arg,        \* the call under test: station key and readings list
    web,        \* the HTTP request being served by flask_app
    run,        \* the db_updater process: arguments, position in main and update_once
    read,       \* a reader of the store: the rows of load, the files of db_to_json
    boot,       \* a process starting up: its environment, the module globals it has set
    writers     \* two connections writing to the store: position in executemany, rowcount

vars == <<store, now, last, arg, web, run, read, boot, writers>>

----------------------------------------------------------------------------
(* Bounds of the model *)

MaxBatch == 2       \* longest readings list handed to save_readings
MaxTicks == 1       \* how many days the clock advances
MaxItems == 3       \* longest items list an upstream answers with

----------------------------------------------------------------------------
(* Station registry, flask_app.py *)

STATIONS ==
    [chester     |-> [id |-> "067033_TG_148", name |-> "Chester", source |-> "EA"],
     liverpool   |-> [id |-> "E70124", name |-> "Liverpool", source |-> "EA"],
     ironbridge  |-> [id |-> "4173", name |-> "Ironbridge", source |-> "NRW",
                      parameter_id |-> 41],
     farndon     |-> [id |-> "4170", name |-> "Farndon", source |-> "NRW",
                      parameter_id |-> 40],
     queens_park |-> [id |-> "SJ46_109", name |-> "Queens Park ground water level",
                      source |-> "EA"]]

\* STATIONS.items() / STATIONS.keys(): dict order
StationKeys == <<"chester", "liverpool", "ironbridge", "farndon", "queens_park">>

----------------------------------------------------------------------------
(* Time *)

\* timedelta(days=1) in seconds
DAY == 86400

NaN == -1

\* a value that is a string and no number, such as "n/a"
NonNumeric == -2

Iso(wall, off) == [fmt |-> "iso", wall |-> wall, off |-> off]
NaT == [fmt |-> "NaT", wall |-> 0, off |-> 0]

\* datetime.fromisoformat(...): raises ValueError on "NaT"
IsoRaises(iso) == iso.fmt # "iso"

\* the seconds of the wall clock reading, its offset ignored: what the epoch is not
WallClockSeconds(iso) == iso.wall

\* int(dt.timestamp()) of a string that carries an offset ("Z" is read as
\* +00:00): the offset is taken off the wall clock reading
iso_to_epoch_seconds(iso) == iso.wall - iso.off

----------------------------------------------------------------------------
(* Ingestion store, db_updater.py *)

SamePK(r, row) == r.station_key = row.station_key /\ r.ts_utc = row.ts_utc

\* INSERT OR REPLACE: what the statement is not
InsertOrReplace(st, row) ==
    IF row.value = NaN
    THEN [store |-> st, changes |-> 0]
    ELSE [store |-> {r \in st : ~SamePK(r, row)} \cup {row}, changes |-> 1]

\* One INSERT OR IGNORE under PRIMARY KEY (station_key, ts_utc) and value REAL NOT NULL
\* (sqlite binds a NaN as NULL); changes is sqlite3_changes() of the statement.
InsertOrIgnore(st, row) ==
    IF (\E r \in st : SamePK(r, row)) \/ row.value = NaN
    THEN [store |-> st, changes |-> 0]
    ELSE [store |-> st \cup {row}, changes |-> 1]

\* rowcount of the last statement alone: what executemany's rowcount is not
RECURSIVE LastStatementCount(_, _)
LastStatementCount(st, rows) ==
    IF rows = <<>>
    THEN [store |-> st, rowcount |-> 0]
    ELSE LET one  == InsertOrIgnore(st, Head(rows))
             rest == LastStatementCount(one.store, Tail(rows))
         IN  [store |-> rest.store,
              rowcount |-> IF Tail(rows) = <<>> THEN one.changes ELSE rest.rowcount]

\* cur.executemany(...): one statement per row, rowcount the sum of the changes
RECURSIVE executemany(_, _)
executemany(st, rows) ==
    IF rows = <<>>
    THEN [store |-> st, rowcount |-> 0]
    ELSE LET one  == InsertOrIgnore(st, Head(rows))
             rest == executemany(one.store, Tail(rows))
         IN  [store |-> rest.store, rowcount |-> one.changes + rest.rowcount]

\* the loop building rows: a reading that raises is skipped
RECURSIVE BuildRows(_, _, _)
BuildRows(station_key, station_meta, readings) ==
    IF readings = <<>>
    THEN <<>>
    ELSE LET r    == Head(readings)
             rest == BuildRows(station_key, station_meta, Tail(readings))
         IN  IF IsoRaises(r.dateTime)
             THEN rest
             ELSE <<[station_key |-> station_key,
                     station_id  |-> station_meta.id,
                     source      |-> station_meta.source,
                     ts_utc      |-> iso_to_epoch_seconds(r.dateTime),
                     value       |-> r.value]>> \o rest

\* rowcount as the number of attempted inserts: what the return value is not
AttemptedCount(st, station_key, station_meta, readings) ==
    IF readings = <<>>
    THEN [store |-> st, ret |-> 0]
    ELSE LET rows == BuildRows(station_key, station_meta, readings)
         IN  [store |-> executemany(st, rows).store, ret |-> Len(rows)]

save_readings(st, station_key, station_meta, readings) ==
    IF readings = <<>>
    THEN [store |-> st, ret |-> 0]
    ELSE LET done == executemany(st, BuildRows(station_key, station_meta, readings))
         IN  [store |-> done.store, ret |-> done.rowcount]

\* DELETE ... WHERE ts_utc <= ?: what the statement is not
PruneInclusive(st, t, retention_days) ==
    LET cutoff_epoch == t - retention_days * DAY
        kept == {r \in st : ~(r.ts_utc <= cutoff_epoch)}
    IN  [store |-> kept, deleted |-> Cardinality(st) - Cardinality(kept)]

prune_old(st, t, retention_days) ==
    LET cutoff_epoch == t - retention_days * DAY
        kept == {r \in st : ~(r.ts_utc < cutoff_epoch)}
    IN  [store |-> kept, deleted |-> Cardinality(st) - Cardinality(kept)]

----------------------------------------------------------------------------
(* Inputs of the store operations *)

StartNow == 2 * DAY

\* Readings around the one-day cutoff of StartNow + DAY: two name the instant
\* 2*DAY - 3600 with different offsets and values, one names the instant 2*DAY,
\* one has no timestamp, one has no value.
Readings ==
    {[dateTime |-> Iso(2 * DAY - 3600, 0), value |-> 10],
     [dateTime |-> Iso(2 * DAY, 3600), value |-> 20],
     [dateTime |-> Iso(2 * DAY, 0), value |-> 10],
     [dateTime |-> NaT, value |-> 10],
     [dateTime |-> Iso(2 * DAY, 0), value |-> NaN]}

SeqsUpTo(S, n) == UNION {[1..k -> S] : k \in 0..n}

Batches == SeqsUpTo(Readings, MaxBatch)

StoreKeys == {"chester", "ironbridge"}

RetentionChoices == {1, 2}

\* A reading that becomes a row: its timestamp parses and its value is a number
WellFormed(r) == r.dateTime.fmt = "iso" /\ r.value # NaN

Instant(r) == r.dateTime.wall - r.dateTime.off

\* For each instant of the batch, the first well-formed reading that names it
FirstPerTs(batch) ==
    {[ts_utc |-> Instant(batch[i]), value |-> batch[i].value] :
        i \in {n \in 1..Len(batch) :
                 /\ WellFormed(batch[n])
                 /\ \A m \in 1..(n - 1) :
                        ~(WellFormed(batch[m]) /\ Instant(batch[m]) = Instant(batch[n]))}}

NoCall == [op |-> "none", key |-> "", days |-> 0, at |-> 0, ret |-> 0,
           before |-> {}, first |-> {}, repeat |-> FALSE]

NoArg == [key |-> "", batch |-> <<>>, tz |-> 0]

NoArgs == [once |-> FALSE, loop |-> FALSE, backfill_days |-> 0, days |-> 0,
           fetch_days |-> 0]

NoRunner == [pc |-> "none", args |-> NoArgs, site |-> "", fetch_days |-> 0, i |-> 0,
             total_inserts |-> 0, per_station |-> <<>>, deleted |-> 0,
             log |-> <<>>, raisedset |-> {},
             started |-> 0, slept |-> 0, slept_at |-> 0, woke |-> 0,
             backfills |-> 0, backfilled |-> <<>>, fresh |-> {}, kills |-> 0]

NoRead == [op |-> "none", pc |-> "idle", key |-> "", since |-> 0, rows |-> <<>>,
           station_keys |-> <<>>, i |-> 0, files |-> <<>>]

\* no process is starting up: the key is set and the adapter is bound
NoBoot == [pc |-> "none", process |-> "", env |-> [key |-> TRUE, nrw |-> TRUE, libs |-> TRUE],
           NRW_KEY |-> "key", adapter |-> TRUE, log |-> <<>>]

\* no connection is writing
NoWriters == <<>>

NoQuery == [given |-> FALSE, isint |-> FALSE, n |-> 0]

NoRequest == [route |-> "none", pc |-> "idle", key |-> "", query |-> NoQuery,
              ndays |-> 0, i |-> 0, all_data |-> <<>>, answers |-> <<>>,
              calls |-> <<>>, status |-> 0, body |-> <<>>]

----------------------------------------------------------------------------
(* The store under any sequence of save_readings and prune_old calls *)

InitStore ==
    /\ store = {}
    /\ now = StartNow
    /\ last = NoCall
    /\ arg = NoArg
    /\ web = NoRequest
    /\ run = NoRunner
    /\ read = NoRead
    /\ boot = NoBoot
    /\ writers = NoWriters

SaveReadings ==
    \E key \in StoreKeys, batch \in Batches :
        LET res == save_readings(store, key, STATIONS[key], batch)
        IN  /\ store' = res.store
            /\ last' = [op |-> "save", key |-> key, days |-> 0, at |-> now,
                        ret |-> res.ret, before |-> store,
                        first |-> FirstPerTs(batch), repeat |-> FALSE]
            /\ UNCHANGED <<now, arg, web, run, read, boot, writers>>

PruneOld ==
    \E d \in RetentionChoices :
        LET res == prune_old(store, now, d)
        IN  /\ store' = res.store
            /\ last' = [op |-> "prune", key |-> "", days |-> d, at |-> now,
                        ret |-> res.deleted, before |-> store,
                        first |-> {}, repeat |-> FALSE]
            /\ UNCHANGED <<now, arg, web, run, read, boot, writers>>

Tick ==
    /\ now < StartNow + MaxTicks * DAY
    /\ now' = now + DAY
    /\ UNCHANGED <<store, last, arg, web, run, read, boot, writers>>

NextStore == SaveReadings \/ PruneOld \/ Tick

SpecStore == InitStore /\ [][NextStore]_vars

----------------------------------------------------------------------------
(* save_readings called with one readings list, on any store *)

InitSave ==
    /\ store = {}
    /\ now = StartNow
    /\ last = NoCall
    /\ arg \in [key : StoreKeys, batch : Batches, tz : {0}]
    /\ web = NoRequest
    /\ run = NoRunner
    /\ read = NoRead
    /\ boot = NoBoot
    /\ writers = NoWriters

\* an earlier call that wrote one reading of some station
Seed ==
    \E key \in StoreKeys, r \in Readings :
        LET res == save_readings(store, key, STATIONS[key], <<r>>)
        IN  /\ store' = res.store
            /\ last' = [op |-> "seed", key |-> key, days |-> 0, at |-> now,
                        ret |-> res.ret, before |-> store,
                        first |-> FirstPerTs(<<r>>), repeat |-> FALSE]
            /\ UNCHANGED <<now, arg, web, run, read, boot, writers>>

\* the call under test; repeat: the call before it was the same call
Call ==
    LET res == save_readings(store, arg.key, STATIONS[arg.key], arg.batch)
    IN  /\ store' = res.store
        /\ last' = [op |-> "save", key |-> arg.key, days |-> 0, at |-> now,
                    ret |-> res.ret, before |-> store,
                    first |-> FirstPerTs(arg.batch), repeat |-> (last.op = "save")]
        /\ UNCHANGED <<now, arg, web, run, read, boot, writers>>

NextSave == Seed \/ Call

SpecSave == InitSave /\ [][NextSave]_vars

----------------------------------------------------------------------------
(* Properties of the store *)

\* C1: save_readings called twice in succession with the identical batch for one
\* station: the second call leaves the store as the first call left it and
\* returns 0.
C1_Idempotent ==
    (last.op = "save" /\ last.repeat) => (store = last.before /\ last.ret = 0)

\* the repeated batch holds a well-formed reading, whose row is in the store
C1_Witness ==
    /\ last.op = "save" /\ last.repeat
    /\ Len(arg.batch) = MaxBatch
    /\ FirstPerTs(arg.batch) # {}
    /\ \E r \in store : r.station_key = arg.key

\* the timestamps of the batch's well-formed readings that station key has no row for
NewKeys(before, key, batch) ==
    {f.ts_utc : f \in FirstPerTs(batch)}
        \ {r.ts_utc : r \in {x \in before : x.station_key = key}}

\* C2: save_readings returns the number of rows it added: the number of distinct
\* (station_key, ts_utc) keys of the batch that were absent from the store before
\* the call; stored keys, keys repeated in the batch and malformed rows are not
\* counted.
C2_ReturnsNewRows ==
    last.op = "save" =>
        /\ last.before \subseteq store
        /\ last.ret = Cardinality(store \ last.before)
        /\ last.ret = Cardinality(NewKeys(last.before, arg.key, arg.batch))

\* two well-formed readings of one instant: one row added, one returned
C2_Witness ==
    /\ last.op = "save" /\ last.ret = 1
    /\ Len(arg.batch) = 2
    /\ WellFormed(arg.batch[1]) /\ WellFormed(arg.batch[2])
    /\ Instant(arg.batch[1]) = Instant(arg.batch[2])
    /\ last.before # {}

\* C3: after any sequence of save_readings and prune_old calls the store holds at
\* most one row per (station_key, ts_utc); a stored row is never changed by a later
\* call, only removed by a prune; a row a call adds carries the value of the first
\* reading of the batch for its key.
C3_FirstWriteWins ==
    /\ \A r1, r2 \in store : SamePK(r1, r2) => r1 = r2
    /\ \A r \in last.before :
          r \in store \/ (last.op = "prune" /\ ~\E x \in store : SamePK(x, r))
    /\ last.op = "save" =>
          \A r \in store \ last.before :
              /\ r.station_key = last.key
              /\ [ts_utc |-> r.ts_utc, value |-> r.value] \in last.first

\* an upsert of a stored key with a different value
C3_Witness ==
    /\ last.op = "save"
    /\ \E r \in last.before, f \in last.first :
          r.station_key = last.key /\ r.ts_utc = f.ts_utc /\ r.value # f.value

\* C4: prune_old(retention_days) at time now removes exactly the rows with
\* ts_utc < now - retention_days: none of them remains, every other row of any
\* station is still there unchanged, and the return value is the number removed.
C4_PruneExact ==
    last.op = "prune" =>
        LET cutoff == last.at - last.days * DAY
        IN  /\ store = {r \in last.before : r.ts_utc >= cutoff}
            /\ \A r \in store : r.ts_utc >= cutoff
            /\ last.ret = Cardinality({r \in last.before : r.ts_utc < cutoff})

\* a prune that removes a row and keeps a row stamped exactly at the cutoff,
\* with rows of two stations in the store before it
C4_Witness ==
    /\ last.op = "prune"
    /\ \E r \in last.before : r.ts_utc < last.at - last.days * DAY
    /\ \E r \in store : r.ts_utc = last.at - last.days * DAY
    /\ \E r1, r2 \in last.before : r1.station_key # r2.station_key

----------------------------------------------------------------------------
(* Readers of the store: db_plotly.load, db_to_json.export_all_stations *)

\* ORDER BY ts_utc ASC over rows of one station: the primary key gives each
\* ts_utc once
RECURSIVE OrderByTs(_)
OrderByTs(rows) ==
    IF rows = {} THEN <<>>
    ELSE LET first == CHOOSE x \in rows : \A y \in rows : x.ts_utc <= y.ts_utc
         IN  <<first>> \o OrderByTs(rows \ {first})

\* SELECT ts_utc, value FROM readings ORDER BY ts_utc ASC, with no WHERE clause:
\* what the query of the export is not
SelectAll(st, station_key) ==
    OrderByTs({[ts_utc |-> r.ts_utc, value |-> r.value] : r \in st})

\* SELECT ts_utc, value FROM readings WHERE station_key = ? ORDER BY ts_utc ASC
SelectStation(st, station_key) ==
    OrderByTs({[ts_utc |-> r.ts_utc, value |-> r.value] :
                  r \in {x \in st : x.station_key = station_key}})

\* the query of load: ... WHERE station_key = ? AND ts_utc >= ? ORDER BY ts_utc ASC
query_range(st, station_key, cutoff) ==
    OrderByTs({[ts_utc |-> r.ts_utc, value |-> r.value] :
                  r \in {x \in st : x.station_key = station_key /\ x.ts_utc >= cutoff}})

\* ORDER BY station_key
KeyOrder == <<"chester", "farndon", "ironbridge", "liverpool", "queens_park">>

\* SELECT DISTINCT station_key FROM readings ORDER BY station_key
DistinctKeys(st) == SelectSeq(KeyOrder, LAMBDA k : \E r \in st : r.station_key = k)

\* export_station_to_json: the file <station_key>.json, unless the key is not in
\* STATIONS or the station has no rows
export_station_to_json(st, station_key, t, files) ==
    IF station_key \notin DOMAIN STATIONS THEN files
    ELSE IF SelectStation(st, station_key) = <<>> THEN files
    ELSE (station_key :>
            [station_key  |-> station_key,
             station_name |-> STATIONS[station_key].name,
             source       |-> STATIONS[station_key].source,
             generated_at |-> t,
             data         |-> SelectStation(st, station_key)]) @@ files

ReadIdle == read.pc = "idle"

\* what earlier runs left in the database: nothing, or one row of a station
EarlierStores ==
    {save_readings({}, key, STATIONS[key], b).store :
        key \in StoreKeys, b \in SeqsUpTo(Readings, 1)}

InitRead ==
    /\ store \in EarlierStores
    /\ now = StartNow
    /\ last = NoCall
    /\ arg \in [key : {""}, batch : Batches, tz : {0}]
    /\ web = NoRequest
    /\ run = NoRunner
    /\ read = NoRead
    /\ boot = NoBoot
    /\ writers = NoWriters

\* save_readings writes the readings of arg.batch for a station, while no reader
\* is at work
SaveBatch ==
    /\ ReadIdle
    /\ \E key \in StoreKeys :
        LET res == save_readings(store, key, STATIONS[key], arg.batch)
        IN  /\ store' = res.store
            /\ last' = [op |-> "save", key |-> key, days |-> 0, at |-> now,
                        ret |-> res.ret, before |-> store,
                        first |-> FirstPerTs(arg.batch), repeat |-> FALSE]
    /\ UNCHANGED <<now, arg, web, run, read, boot, writers>>

\* the clock between the calls
Later ==
    /\ ReadIdle
    /\ now < StartNow + MaxTicks * DAY
    /\ now' = now + DAY
    /\ UNCHANGED <<store, last, arg, web, run, read, boot, writers>>

\* load(db, station_key, days): the rows of the query, before they are resampled
\* for the plot
Load ==
    /\ ReadIdle
    /\ \E key \in StoreKeys, days \in RetentionChoices :
        read' = [NoRead EXCEPT !.op = "load", !.pc = "done", !.key = key,
                               !.since = now - days * DAY,
                               !.rows = query_range(store, key, now - days * DAY)]
    /\ UNCHANGED <<store, now, last, arg, web, run, boot, writers>>

\* export_all_stations: the station keys of the database
ExportBegin ==
    /\ ReadIdle
    /\ read' = [NoRead EXCEPT !.op = "export",
                               !.pc = IF DistinctKeys(store) = <<>> THEN "done"
                                      ELSE "loop",
                               !.station_keys = DistinctKeys(store), !.i = 1]
    /\ UNCHANGED <<store, now, last, arg, web, run, boot, writers>>

\* one pass of: for station_key in station_keys
ExportStation ==
    /\ read.op = "export" /\ read.pc = "loop" /\ read.i <= Len(read.station_keys)
    /\ read' = [read EXCEPT
                  !.i = read.i + 1,
                  !.files = export_station_to_json(store, read.station_keys[read.i],
                                                   now, read.files)]
    /\ UNCHANGED <<store, now, last, arg, web, run, boot, writers>>

\* conn.close()
ExportEnd ==
    /\ read.op = "export" /\ read.pc = "loop" /\ read.i > Len(read.station_keys)
    /\ read' = [read EXCEPT !.pc = "done"]
    /\ UNCHANGED <<store, now, last, arg, web, run, boot, writers>>

\* the reader has finished and its result is dropped
ReadOver ==
    /\ read.pc = "done"
    /\ read' = NoRead
    /\ UNCHANGED <<store, now, last, arg, web, run, boot, writers>>

NextRead ==
    SaveBatch \/ Later \/ Load \/ ExportBegin \/ ExportStation \/ ExportEnd \/ ReadOver

SpecRead == InitRead /\ [][NextRead]_vars

----------------------------------------------------------------------------
(* Properties of the readers *)

\* how often x occurs in seq
Count(seq, x) == Cardinality({i \in DOMAIN seq : seq[i] = x})

\* the rows the store holds for a station, as pairs
PairsOf(key) ==
    {[ts_utc |-> r.ts_utc, value |-> r.value] : r \in {x \in store : x.station_key = key}}

----------------------------------------------------------------------------
(* Source adapters: flask_app.fetch_station_data (EA), nrw_api.fetch_historical_data *)

\* What the upstream does with one request: it answers 200 with a body holding
\* items, or the request fails ("network": connection error, "status": non-2xx,
\* "malformed": a body that is not JSON), or it never answers ("hang").
Ok(items) == [kind |-> "ok", items |-> items]
Failed(kind) == [kind |-> kind, items |-> <<>>]
FailKinds == {"network", "status", "malformed"}

\* str(e) of the exception the request ends with
ExcMessage(kind) ==
    CASE kind = "network"   -> "<urlopen error [Errno 111] Connection refused>"
      [] kind = "status"    -> "HTTP Error 500: Internal Server Error"
      [] kind = "malformed" -> "Expecting value: line 1 column 1 (char 0)"
      [] OTHER              -> "timed out"

\* EA: requests.get(timeout=10), raise_for_status, json inside try/except
\* Exception: every failure, the timeout included, ends as {"items": []}
fetch_station_data(station_id, ndays, up) ==
    [returns |-> TRUE, raised |-> FALSE, message |-> "",
     data |-> IF up.kind = "ok" THEN [items |-> up.items] ELSE [items |-> <<>>]]

\* NRW: urllib.request.urlopen(req) with no timeout and no try: a failure raises,
\* an upstream that never answers blocks the call
fetch_historical_data(station_id, ndays, parameter, up) ==
    CASE up.kind = "ok" ->
            [returns |-> TRUE, raised |-> FALSE, message |-> "",
             data |-> [items |-> up.items]]
      [] up.kind = "hang" ->
            [returns |-> FALSE, raised |-> FALSE, message |-> "",
             data |-> [items |-> <<>>]]
      [] OTHER ->
            [returns |-> TRUE, raised |-> TRUE, message |-> ExcMessage(up.kind),
             data |-> [items |-> <<>>]]

----------------------------------------------------------------------------
(* Normalisation inside flask_app.get_station_data *)

\* an upstream dateTime no parser reads
Bad == [fmt |-> "bad", wall |-> 0, off |-> 0]

\* a complete timestamp with an offset, written in another format than the one
\* pd.to_datetime reads the column in: the strict parser leaves it NaT, dateutil
\* reads it
Lenient(wall, off) == [fmt |-> "lenient", wall |-> wall, off |-> off]

\* a time of day with an offset and no date ("00:15:00Z"): the strict parser
\* leaves it NaT, dateutil reads it; wall holds the seconds since midnight
Partial(tod, off) == [fmt |-> "partial", wall |-> tod, off |-> off]

\* datetime.now().replace(hour=0, minute=0, second=0, microsecond=0), the default
\* of dateutil's parse: midnight of the local date, as wall clock seconds
LocalMidnight(t, tz) == ((t + tz) \div DAY) * DAY

\* dateutil_parser.parse(s): the fields the string names, the others taken from
\* the default; ValueError for a string it cannot read
dateutil_parse(raw, t, tz) ==
    CASE raw.fmt = "lenient" -> [ok |-> TRUE, wall |-> raw.wall, off |-> raw.off]
      [] raw.fmt = "partial" ->
            [ok |-> TRUE, wall |-> LocalMidnight(t, tz) + raw.wall, off |-> raw.off]
      [] OTHER -> [ok |-> FALSE, wall |-> 0, off |-> 0]

\* parsed.replace(tzinfo=<local zone>): the wall clock reading kept, the offset
\* exchanged: what astimezone is not
ReplaceTzinfo(parsed, tz) == [parsed EXCEPT !.off = tz]

\* parsed.astimezone(tz=None): the same instant on the wall clock of the local
\* zone of the process
astimezone(parsed, tz) ==
    [parsed EXCEPT !.wall = parsed.wall - parsed.off + tz, !.off = tz]

\* df.at[idx, "dateTime"] = pd.to_datetime(parsed): the aware value is stored in
\* the datetime64[ns, UTC] column as its instant
SetAt(parsed) == [nat |-> FALSE, t |-> parsed.wall - parsed.off]

\* pd.to_datetime(..., utc=True, errors='coerce') and, for what it leaves NaT, the
\* dateutil fallback, at the clock reading t of a process in the zone tz
ParseDateTimeAt(raw, t, tz) ==
    IF raw.fmt = "iso"
    THEN [nat |-> FALSE, t |-> raw.wall - raw.off]
    ELSE LET parsed == dateutil_parse(raw, t, tz)
         IN  IF parsed.ok THEN SetAt(astimezone(parsed, tz))
             ELSE [nat |-> TRUE, t |-> 0]

\* Timestamp.isoformat(): "...+00:00" of the UTC instant, "NaT" for NaT
IsoFormat(ts) == IF ts.nat THEN NaT ELSE Iso(ts.t, 0)

\* order of sort_values("dateTime"): ascending, NaT last
Before(a, b) == ~a.dateTime.nat /\ (b.dateTime.nat \/ a.dateTime.t < b.dateTime.t)

\* the frame left in the order of the upstream: what sort_values is not
Unsorted(rows) == rows

RECURSIVE InsertSorted(_, _)
InsertSorted(row, sorted) ==
    IF sorted = <<>> THEN <<row>>
    ELSE IF Before(row, Head(sorted)) THEN <<row>> \o sorted
    ELSE <<Head(sorted)>> \o InsertSorted(row, Tail(sorted))

\* df.sort_values("dateTime"): ascending; rows of equal dateTime are left here in
\* the order they came in
RECURSIVE SortValues(_)
SortValues(rows) ==
    IF rows = <<>> THEN <<>>
    ELSE InsertSorted(rows[Len(rows)], SortValues(SubSeq(rows, 1, Len(rows) - 1)))

Range(f) == {f[i] : i \in DOMAIN f}

RECURSIVE SumOf(_)
SumOf(vals) == IF vals = <<>> THEN 0 ELSE Head(vals) + SumOf(Tail(vals))

\* stats of the first row alone: what the stats are not
StatsOfHead(df) ==
    [min   |-> df[1].value,
     max   |-> df[1].value,
     mean  |-> <<df[1].value, 1>>,
     count |-> 1]

\* df["value"].min() / max() / mean(): NaN is skipped; the mean is the pair
\* <<sum, number of values>>; count is len(df)
Stats(df) ==
    LET vals == SelectSeq([i \in DOMAIN df |-> df[i].value], LAMBDA v : v # NaN)
        nums == Range(vals)
    IN  [min   |-> IF nums = {} THEN NaN
                   ELSE CHOOSE v \in nums : \A w \in nums : v <= w,
         max   |-> IF nums = {} THEN NaN
                   ELSE CHOOSE v \in nums : \A w \in nums : v >= w,
         mean  |-> <<SumOf(vals), Len(vals)>>,
         count |-> Len(df)]

\* the DataFrame path at the clock reading t of a process in the zone tz: parse,
\* sort, format
NormalizedAt(station, readings, t, tz) ==
    LET df == SortValues([i \in DOMAIN readings |->
                            [dateTime |-> ParseDateTimeAt(readings[i].dateTime, t, tz),
                             value    |-> readings[i].value]])
    IN  [station  |-> station,
         readings |-> [i \in DOMAIN df |->
                         [dateTime |-> IsoFormat(df[i].dateTime),
                          value    |-> df[i].value]],
         stats    |-> Stats(df)]

\* the DataFrame path in this process
Normalized(station, readings) == NormalizedAt(station, readings, now, arg.tz)

----------------------------------------------------------------------------
(* flask_app.get_station_data *)

Returned(value, calls) ==
    [returns |-> TRUE, raised |-> FALSE, value |-> value, calls |-> calls]

Raised(message, calls) ==
    [returns |-> TRUE, raised |-> TRUE, value |-> [exception |-> message],
     calls |-> calls]

Blocked(calls) ==
    [returns |-> FALSE, raised |-> FALSE, value |-> [exception |-> ""], calls |-> calls]

\* the adapter call of the station's source
FetchFor(station, ndays, up) ==
    IF station.source = "EA"
    THEN fetch_station_data(station.id, ndays, up)
    ELSE fetch_historical_data(station.id, ndays,
            IF "parameter_id" \in DOMAIN station THEN station.parameter_id ELSE 41, up)

AdapterCall(station, ndays) ==
    <<[source |-> station.source, id |-> station.id, ndays |-> ndays]>>

\* item["value"] in the comprehension over data.get("items", []): KeyError for
\* an item without the key
ItemRaises(items) == \E i \in DOMAIN items : "value" \notin DOMAIN items[i]

\* float(row["value"]) in the returned readings: ValueError for a string that is
\* no number
FloatRaises(items) == \E i \in DOMAIN items : items[i].value = NonNumeric

\* the try block after the adapter call
AfterFetch(station, fetched, calls) ==
    IF ~fetched.returns THEN Blocked(calls)
    ELSE IF fetched.raised THEN Raised(fetched.message, calls)
    ELSE IF ItemRaises(fetched.data.items) THEN Raised("'value'", calls)
    ELSE IF fetched.data.items = <<>>
         THEN Returned([station |-> station, readings |-> <<>>,
                        error |-> "No data available"], calls)
    ELSE IF FloatRaises(fetched.data.items)
         THEN Raised("could not convert string to float: 'n/a'", calls)
         ELSE Returned(Normalized(station, fetched.data.items), calls)

\* the try block of get_station_data, for a registered station
TryBlock(station, ndays, up) ==
    AfterFetch(station, FetchFor(station, ndays, up), AdapterCall(station, ndays))

\* an except clause returning the error alone: what it is not
ExceptBare(station, body) ==
    IF body.raised
    THEN Returned([error |-> body.value.exception], body.calls)
    ELSE body

\* except Exception as e: the result carries str(e)
Except(station, body) ==
    IF body.raised
    THEN Returned([station |-> station, readings |-> <<>>,
                   error |-> body.value.exception], body.calls)
    ELSE body

\* the DataFrame of no rows has no dateTime column: df["dateTime"] raises KeyError
EmptyFrame(station, body) ==
    IF body.returns /\ ~body.raised /\ "error" \in DOMAIN body.value
    THEN Raised("'dateTime'", body.calls)
    ELSE body

\* get_station_data without its except clause: what it is not
GetStationDataUncaught(station_key, ndays, up) ==
    IF station_key \notin DOMAIN STATIONS
    THEN Returned([error |-> "Station not found"], <<>>)
    ELSE TryBlock(STATIONS[station_key], ndays, up)

\* get_station_data without the registry test: what it is not
GetStationDataUnchecked(station_key, ndays, up) ==
    IF station_key \notin DOMAIN STATIONS
    THEN Raised("KeyError", <<>>)
    ELSE Except(STATIONS[station_key], TryBlock(STATIONS[station_key], ndays, up))

\* get_station_data without the test for an empty readings list: what it is not
GetStationDataNoEmptyTest(station_key, ndays, up) ==
    IF station_key \notin DOMAIN STATIONS
    THEN Returned([error |-> "Station not found"], <<>>)
    ELSE Except(STATIONS[station_key],
                EmptyFrame(STATIONS[station_key],
                           TryBlock(STATIONS[station_key], ndays, up)))

get_station_data(station_key, ndays, up) ==
    IF station_key \notin DOMAIN STATIONS
    THEN Returned([error |-> "Station not found"], <<>>)
    ELSE Except(STATIONS[station_key], TryBlock(STATIONS[station_key], ndays, up))

----------------------------------------------------------------------------
(* HTTP handlers of flask_app: api_station, api_all *)

\* ?ndays= of the request: absent, "3", "0", "-2", "abc"
NdaysArgs ==
    {NoQuery,
     [given |-> TRUE, isint |-> TRUE, n |-> 3],
     [given |-> TRUE, isint |-> TRUE, n |-> 0],
     [given |-> TRUE, isint |-> TRUE, n |-> -2],
     [given |-> TRUE, isint |-> FALSE, n |-> 0]}

\* the lookback without the test ndays < 1: what it is not
ParseNdaysUnfloored(q) ==
    IF ~q.given THEN 1
    ELSE IF ~q.isint THEN 1
    ELSE q.n

\* int(request.args.get('ndays', 1)), 1 when below 1, 1 when int() raises
ParseNdays(q) ==
    IF ~q.given THEN 1
    ELSE IF ~q.isint THEN 1
    ELSE IF q.n < 1 THEN 1 ELSE q.n

\* what an upstream holds: a later reading listed before an earlier one
ItemsOne == <<[dateTime |-> Iso(2 * DAY, 0), value |-> 20]>>
ItemsTwo == <<[dateTime |-> Iso(2 * DAY, 0), value |-> 20],
              [dateTime |-> Iso(2 * DAY, 3600), value |-> 10]>>

UpstreamAnswers ==
    {Ok(<<>>), Ok(ItemsOne), Ok(ItemsTwo)}
        \cup {Failed(k) : k \in FailKinds} \cup {Failed("hang")}

\* <station_key> of /api/station/<station_key>: the registry's keys and one other
RequestKeys == DOMAIN STATIONS \cup {"nowhere"}

Idle == web.pc = "idle"

InitQuery ==
    /\ store = {}
    /\ now = StartNow
    /\ last = NoCall
    /\ arg = NoArg
    /\ web = NoRequest
    /\ run = NoRunner
    /\ read = NoRead
    /\ boot = NoBoot
    /\ writers = NoWriters

\* the request after get_station_data: jsonify(data) answers 200; an exception
\* that leaves the view is a 500
StationResponse(key, q, up, out) ==
    [route |-> "station",
     pc |-> IF ~out.returns THEN "blocked"
            ELSE IF out.raised THEN "failed" ELSE "done",
     key |-> key, query |-> q, ndays |-> ParseNdays(q), i |-> 0,
     all_data |-> <<>>, answers |-> (key :> up), calls |-> out.calls,
     status |-> IF ~out.returns THEN 0 ELSE IF out.raised THEN 500 ELSE 200,
     body |-> out.value]

\* GET /api/station/<station_key>
ApiStation ==
    /\ Idle
    /\ \E key \in RequestKeys, q \in NdaysArgs, up \in UpstreamAnswers :
        web' = StationResponse(key, q, up, get_station_data(key, ParseNdays(q), up))
    /\ UNCHANGED <<store, now, last, arg, run, read, boot, writers>>

\* GET /api/all: all_data = {}, ndays parsed
ApiAllBegin ==
    /\ Idle
    /\ \E q \in NdaysArgs :
        web' = [NoRequest EXCEPT !.route = "all", !.pc = "loop", !.query = q,
                                 !.ndays = ParseNdays(q), !.i = 1]
    /\ UNCHANGED <<store, now, last, arg, run, read, boot, writers>>

\* all_data[station_key] = get_station_data(station_key, ndays=ndays)
AllDataSet(key, up, out) ==
    [web EXCEPT
       !.pc = IF ~out.returns THEN "blocked"
              ELSE IF out.raised THEN "failed" ELSE "loop",
       !.status = IF out.returns /\ out.raised THEN 500 ELSE 0,
       !.i = IF out.returns /\ ~out.raised THEN web.i + 1 ELSE web.i,
       !.all_data = IF out.returns /\ ~out.raised
                    THEN (key :> out.value) @@ web.all_data
                    ELSE web.all_data,
       !.answers = (key :> up) @@ web.answers,
       !.calls = web.calls \o out.calls]

\* one pass of: for station_key in STATIONS.keys()
ApiAllStep ==
    /\ web.route = "all" /\ web.pc = "loop" /\ web.i <= Len(StationKeys)
    /\ \E up \in UpstreamAnswers :
        web' = AllDataSet(StationKeys[web.i], up,
                          get_station_data(StationKeys[web.i], web.ndays, up))
    /\ UNCHANGED <<store, now, last, arg, run, read, boot, writers>>

\* return jsonify(all_data)
ApiAllReturn ==
    /\ web.route = "all" /\ web.pc = "loop" /\ web.i > Len(StationKeys)
    /\ web' = [web EXCEPT !.pc = "done", !.status = 200, !.body = web.all_data]
    /\ UNCHANGED <<store, now, last, arg, run, read, boot, writers>>

\* the response is sent and the request's state is dropped
Respond ==
    /\ web.pc \in {"done", "failed"}
    /\ web' = NoRequest
    /\ UNCHANGED <<store, now, last, arg, run, read, boot, writers>>

NextQuery == ApiStation \/ ApiAllBegin \/ ApiAllStep \/ ApiAllReturn \/ Respond

SpecQuery == InitQuery /\ [][NextQuery]_vars

----------------------------------------------------------------------------
(* Properties of the queries *)

AllKeys == Range(StationKeys)

\* the stations the request has a result for, and the result
Answered ==
    IF web.route = "station" /\ web.pc = "done" THEN {web.key} \cap DOMAIN STATIONS
    ELSE IF web.route = "all" THEN DOMAIN web.all_data
    ELSE {}

ResultOf(k) == IF web.route = "station" THEN web.body ELSE web.all_data[k]

FailedAnswer(k) == web.answers[k].kind \in FailKinds

\* C6: in the all-stations query, when the adapter of one station fails, the query
\* is not aborted, the result has an entry for every registered station, the
\* entry of every other station is the result that station yields on its own, and
\* a station whose adapter returns data has a non-error result with all its
\* readings and with stats.
C6_Isolation ==
    web.route = "all" =>
        /\ web.pc # "failed"
        /\ web.pc = "done" =>
            /\ DOMAIN web.body = AllKeys
            /\ \A k \in AllKeys :
                /\ web.body[k] = get_station_data(k, web.ndays, web.answers[k]).value
                /\ (web.answers[k].kind = "ok" /\ web.answers[k].items # <<>>) =>
                      /\ DOMAIN web.body[k] = {"station", "readings", "stats"}
                      /\ web.body[k].station = STATIONS[k]
                      /\ Len(web.body[k].readings) = Len(web.answers[k].items)
                      /\ web.body[k].stats.count = Len(web.answers[k].items)

\* the query has returned; the adapter of exactly one station, an NRW one, failed
\* and the adapter of every other station returned data
C6_Witness ==
    /\ web.route = "all" /\ web.pc = "done"
    /\ FailedAnswer("ironbridge")
    /\ \A k \in AllKeys \ {"ironbridge"} :
          web.answers[k].kind = "ok" /\ web.answers[k].items # <<>>

\* C8: get_station_data with a key that is not in the registry returns a result
\* whose error is "Station not found", fetches nothing and raises nothing.
C8_UnknownStation ==
    (web.route = "station" /\ web.key \notin DOMAIN STATIONS) =>
        /\ web.pc = "done"
        /\ web.body = [error |-> "Station not found"]
        /\ web.calls = <<>>

C8_Witness ==
    web.route = "station" /\ web.key = "nowhere" /\ web.pc = "done"

\* C9: when the adapter of a registered station returns a valid empty result,
\* get_station_data returns readings == [], error == "No data available" and no
\* stats.
C9_NoData ==
    \A k \in Answered :
        web.answers[k] = Ok(<<>>) =>
            /\ DOMAIN ResultOf(k) = {"station", "readings", "error"}
            /\ ResultOf(k).station = STATIONS[k]
            /\ ResultOf(k).readings = <<>>
            /\ ResultOf(k).error = "No data available"

\* an empty answer for an EA station and for an NRW station
C9_Witness ==
    /\ web.route = "all" /\ web.pc = "done"
    /\ web.answers["chester"] = Ok(<<>>)
    /\ web.answers["farndon"] = Ok(<<>>)

\* C10: when the adapter's fetch fails (network error, timeout, non-2xx status,
\* malformed body) for a registered station of any source, get_station_data
\* returns readings == [] and an error that describes the failure, which is not
\* the "No data available" of a valid empty answer.
C10_FetchFailureDistinct ==
    \A k \in Answered :
        web.answers[k].kind \in FailKinds \cup {"hang"} =>
            /\ "error" \in DOMAIN ResultOf(k)
            /\ ResultOf(k).readings = <<>>
            /\ ResultOf(k).error # "No data available"

\* C14: in api_station and api_all the lookback handed to get_station_data is
\* the integer of the ndays parameter when that is an integer >= 1, and 1 when
\* the parameter is absent, no integer or below 1; the parameter never makes
\* the response an error, and api_all hands every station the same lookback.
C14_LookbackCoerced ==
    web.route \in {"station", "all"} =>
        LET lookback == IF web.query.given /\ web.query.isint /\ web.query.n >= 1
                        THEN web.query.n ELSE 1
        IN  /\ web.ndays = lookback
            /\ \A c \in DOMAIN web.calls : web.calls[c].ndays = lookback
            /\ web.pc # "failed"
            /\ web.pc = "done" => web.status = 200

\* /api/all?ndays=-2 was answered: each of the five stations was fetched with a
\* lookback of 1
C14_Witness ==
    /\ web.route = "all" /\ web.pc = "done"
    /\ web.query = [given |-> TRUE, isint |-> TRUE, n |-> -2]
    /\ Len(web.calls) = Len(StationKeys)
    /\ \A c \in DOMAIN web.calls : web.calls[c].ndays = 1
    /\ web.status = 200

\* C20: /api/station/<station_key> for a key that is not in the registry is
\* answered with the "Station not found" error field and the status 404, not
\* with a success status.
C20_NotFoundStatus ==
    (web.route = "station" /\ web.pc = "done" /\ web.key \notin DOMAIN STATIONS) =>
        /\ web.body = [error |-> "Station not found"]
        /\ web.status = 404

\* a handler that can take a step takes it: the server runs its views
SpecQueryFair == SpecQuery /\ WF_vars(NextQuery)

\* C24: a request that was taken up is answered, whatever the upstreams do: a
\* call of get_station_data whose upstream never answers returns, and so does the
\* all-stations query that holds it.
C24_HungUpstreamReturns ==
    (web.pc # "idle") ~> (web.pc = "done")

----------------------------------------------------------------------------
(* get_station_data on any items list an upstream can answer with *)

\* Items of an upstream answer: three readings with a number, two of them at one
\* instant written with different offsets, listed latest first; a reading whose
\* dateTime no parser reads; a reading whose value is null among numbers (NaN
\* in the frame); a reading whose value is a string that is no number; an item
\* without the value key.
RawItems ==
    {[dateTime |-> Iso(2 * DAY, 0), value |-> 20],
     [dateTime |-> Iso(2 * DAY, 3600), value |-> 10],
     [dateTime |-> Iso(2 * DAY - 3600, 0), value |-> 30],
     [dateTime |-> Bad, value |-> 40],
     [dateTime |-> Iso(2 * DAY + 900, 0), value |-> NaN],
     [dateTime |-> Iso(2 * DAY + 900, 0), value |-> NonNumeric],
     [dateTime |-> Iso(2 * DAY + 1800, 0)]}

RawBatches == SeqsUpTo(RawItems, MaxItems)

InitNormalize ==
    /\ store = {}
    /\ now = StartNow
    /\ last = NoCall
    /\ arg \in [key : DOMAIN STATIONS, batch : RawBatches, tz : {0}]
    /\ web = NoRequest
    /\ run = NoRunner
    /\ read = NoRead
    /\ boot = NoBoot
    /\ writers = NoWriters

\* result = get_station_data(station_key, ndays=7): the upstream answers with the items of
\* arg.batch, or the request fails, or it is never answered
GetStationData ==
    /\ web.pc = "idle"
    /\ \E up \in {Ok(arg.batch)} \cup {Failed(k) : k \in FailKinds \cup {"hang"}} :
        web' = [StationResponse(arg.key, NoQuery, up,
                                get_station_data(arg.key, 7, up))
                  EXCEPT !.route = "call", !.ndays = 7]
    /\ UNCHANGED <<store, now, last, arg, run, read, boot, writers>>

NextNormalize == GetStationData

SpecNormalize == InitNormalize /\ [][NextNormalize]_vars

----------------------------------------------------------------------------
(* Properties of the normalisation *)

\* the call returned a result for the items of arg.batch
Called == web.route = "call" /\ web.pc = "done" /\ web.answers[arg.key].kind = "ok"

HasValue(item) == "value" \in DOMAIN item

\* the returned reading of a raw row: its instant written in UTC, "NaT" for a
\* dateTime that was not parsed, and its value
Shown(item) ==
    [dateTime |-> IF item.dateTime.fmt = "iso" THEN Iso(Instant(item), 0) ELSE NaT,
     value    |-> item.value]

\* C11: whatever the order of the raw readings, the readings get_station_data
\* returns are in non-decreasing timestamp order and are a permutation of the
\* input rows they come from: the sort neither loses nor duplicates a row.
C11_SortedPermutation ==
    (Called /\ "stats" \in DOMAIN web.body) =>
        LET out == web.body.readings
            raw == [i \in DOMAIN arg.batch |-> Shown(arg.batch[i])]
        IN  /\ Len(out) = Len(raw)
            /\ \A x \in Range(out) \cup Range(raw) : Count(out, x) = Count(raw, x)
            /\ \A i, j \in DOMAIN out :
                   (i < j /\ out[i].dateTime.fmt = "iso" /\ out[j].dateTime.fmt = "iso")
                       => out[i].dateTime.wall <= out[j].dateTime.wall

\* three readings listed latest first, two of them at one instant, were returned
\* earliest first
C11_Witness ==
    /\ Called /\ "stats" \in DOMAIN web.body
    /\ Len(arg.batch) = 3
    /\ \A i \in 1..3 : HasValue(arg.batch[i]) /\ arg.batch[i].dateTime.fmt = "iso"
    /\ Instant(arg.batch[1]) > Instant(arg.batch[2])
    /\ Instant(arg.batch[2]) = Instant(arg.batch[3])
    /\ arg.batch[2] # arg.batch[3]
    /\ web.body.readings[3].dateTime = Iso(Instant(arg.batch[1]), 0)

\* a raw row the normalisation is to keep: its dateTime is ISO-8601 and its value
\* is a number
Valid(item) == HasValue(item) /\ item.value # NonNumeric /\ WellFormed(item)

\* C12: of a batch with a well-formed row, get_station_data returns exactly the
\* well-formed rows: a row whose dateTime no parser reads, or whose value is
\* missing or no number, is not among the returned readings, every well-formed
\* row is, and the result is no error.
C12_DropsMalformed ==
    (Called /\ \E i \in DOMAIN arg.batch : Valid(arg.batch[i])) =>
        /\ "error" \notin DOMAIN web.body
        /\ LET out  == web.body.readings
               kept == SelectSeq(arg.batch, Valid)
               want == [i \in DOMAIN kept |-> Shown(kept[i])]
           IN  /\ Len(out) = Len(want)
               /\ \A x \in Range(out) \cup Range(want) : Count(out, x) = Count(want, x)

C17_ResultShape ==
    web.route = "call" =>
        /\ web.pc # "failed"
        /\ web.pc = "done" =>
               /\ {"station", "readings"} \subseteq DOMAIN web.body
               /\ web.body.station = STATIONS[arg.key]
               /\ {"name", "source"} \subseteq DOMAIN web.body.station
               /\ ("error" \in DOMAIN web.body) <=> ("stats" \notin DOMAIN web.body)
               /\ "error" \in DOMAIN web.body => web.body.readings = <<>>

\* the request of an NRW station failed: the result carries the station, no
\* readings and the error, and no stats
C17_Witness ==
    /\ web.route = "call" /\ web.pc = "done"
    /\ arg.key = "farndon"
    /\ web.answers["farndon"] = Failed("network")
    /\ web.body = [station |-> STATIONS["farndon"], readings |-> <<>>,
                   error |-> ExcMessage("network")]

----------------------------------------------------------------------------
(* get_station_data at any time of day, in any local zone *)

\* Readings of an upstream answer whose dateTime carries an offset: two in the
\* format of the column, one of them an hour east of UTC; two in another format,
\* read by the fallback parser; one that names a time of day only.
RawStamps ==
    {[dateTime |-> Iso(2 * DAY, 0), value |-> 20],
     [dateTime |-> Iso(2 * DAY, 3600), value |-> 10],
     [dateTime |-> Lenient(2 * DAY + 900, 3600), value |-> 30],
     [dateTime |-> Lenient(2 * DAY - 1800, 0), value |-> 40],
     [dateTime |-> Partial(900, 0), value |-> 50]}

StampBatches == SeqsUpTo(RawStamps, MaxItems)

\* UTC offsets of the local zone of the process: UTC, an hour east, five hours west
LocalZones == {0, 3600, 0 - 18000}

\* clock readings of a run: midnight UTC, an hour before the next, the next
Clocks == {StartNow, StartNow + 82800, StartNow + DAY}

InitParse ==
    /\ store = {}
    /\ now \in Clocks
    /\ last = NoCall
    /\ arg \in [key : StoreKeys, batch : StampBatches, tz : LocalZones]
    /\ web = NoRequest
    /\ run = NoRunner
    /\ read = NoRead
    /\ boot = NoBoot
    /\ writers = NoWriters

SpecParse == InitParse /\ [][NextNormalize]_vars

\* a raw row whose dateTime names an instant: date, time of day and offset
Full(item) == item.dateTime.fmt \in {"iso", "lenient"}

\* C21: every reading get_station_data returns has its timestamp written in UTC,
\* and a raw row whose dateTime names an instant is returned with that instant,
\* whether the strict parser or the fallback parser read it and whatever the
\* local zone of the process.
C21_UtcSameInstant ==
    (Called /\ "stats" \in DOMAIN web.body) =>
        LET out  == web.body.readings
            full == SelectSeq(arg.batch, Full)
            want == [i \in DOMAIN full |->
                       [dateTime |-> Iso(Instant(full[i]), 0), value |-> full[i].value]]
        IN  /\ Len(out) = Len(arg.batch)
            /\ \A i \in DOMAIN out :
                   out[i].dateTime.fmt = "iso" /\ out[i].dateTime.off = 0
            /\ \A x \in Range(want) : Count(out, x) >= Count(want, x)

\* in a process five hours west of UTC a row written an hour east of UTC in the
\* other format went through the fallback parser and was returned with its
\* instant, in UTC, after a row of the strict parser
C21_Witness ==
    /\ Called /\ "stats" \in DOMAIN web.body
    /\ arg.tz = 0 - 18000
    /\ arg.batch = <<[dateTime |-> Lenient(2 * DAY + 900, 3600), value |-> 30],
                     [dateTime |-> Iso(2 * DAY, 3600), value |-> 10]>>
    /\ web.body.readings = <<[dateTime |-> Iso(2 * DAY - 3600, 0), value |-> 10],
                             [dateTime |-> Iso(2 * DAY - 2700, 0), value |-> 30]>>

\* C22: the readings a run of the normalisation returns for a raw sequence are
\* the readings every run returns for it, at any clock reading and in any local
\* zone.
C22_Deterministic ==
    (Called /\ "stats" \in DOMAIN web.body) =>
        \A t \in Clocks, tz \in LocalZones :
            NormalizedAt(STATIONS[arg.key], arg.batch, t, tz).readings
                = web.body.readings

----------------------------------------------------------------------------
(* Start of a process: import of nrw_api by flask_app, of flask_app by db_updater *)

\* the processes of the repository that load the adapters
Processes == {"flask_app", "db_updater"}

\* what the process finds: the NRW key (environment or config_keys), the nrw_api
\* package on its path, the libraries flask_app imports
Environments == [key : BOOLEAN, nrw : BOOLEAN, libs : BOOLEAN]

InitStartup ==
    /\ store = {}
    /\ now = StartNow
    /\ last = NoCall
    /\ arg = NoArg
    /\ web = NoRequest
    /\ run = NoRunner
    /\ read = NoRead
    /\ \E p \in Processes, env \in Environments :
        boot = [NoBoot EXCEPT !.pc = "libs", !.process = p, !.env = env,
                              !.NRW_KEY = "unset", !.adapter = FALSE]
    /\ writers = NoWriters

\* flask_app.py 10-17: import flask, requests, pandas, numpy.  An ImportError
\* ends flask_app with a traceback; db_updater turns it into SystemExit
ImportLibs ==
    /\ boot.pc = "libs"
    /\ boot' = IF boot.env.libs
               THEN [boot EXCEPT !.pc = "nrw_api"]
               ELSE [boot EXCEPT !.pc = "aborted",
                        !.log = Append(boot.log,
                                  IF boot.process = "db_updater"
                                  THEN "SystemExit: Could not import STATIONS/get_station_data"
                                  ELSE "ImportError")]
    /\ UNCHANGED <<store, now, last, arg, web, run, read, writers>>

\* flask_app.py 31-36 and nrw_api.py 6-28: from nrw_api.nrw_api import
\* fetch_historical_data inside try/except Exception.  The module sets NRW_KEY,
\* to None with logging.error when there is no key; when the module cannot be
\* imported, flask_app prints a warning and goes on without the name
ImportNrw ==
    /\ boot.pc = "nrw_api"
    /\ boot' = IF ~boot.env.nrw
               THEN [boot EXCEPT !.pc = "ready",
                        !.log = Append(boot.log, "Warning: NRW API not available")]
               ELSE IF boot.env.key
               THEN [boot EXCEPT !.pc = "example", !.NRW_KEY = "key"]
               ELSE [boot EXCEPT !.pc = "example", !.NRW_KEY = "None",
                        !.log = Append(boot.log, "ERROR Need a NRW API Key")]
    /\ UNCHANGED <<store, now, last, arg, web, run, read, writers>>

\* the NRW adapter without a key: the header value None makes urlopen raise
\* TypeError before a request is sent
fetch_historical_data_keyed(key, station_id, ndays, parameter, up) ==
    IF key = "None"
    THEN [returns |-> TRUE, raised |-> TRUE,
          message |-> "expected string or bytes-like object, got 'NoneType'",
          data |-> [items |-> <<>>]]
    ELSE fetch_historical_data(station_id, ndays, parameter, up)

\* nrw_api.py 76-92: the module calls fetch_historical_data(4173, 3, parameter=41)
\* when it is imported, inside try/except Exception: print(e)
ImportExample ==
    /\ boot.pc = "example"
    /\ \E up \in UpstreamAnswers :
        LET out == fetch_historical_data_keyed(boot.NRW_KEY, "4173", 3, 41, up)
        IN  boot' = IF ~out.returns THEN [boot EXCEPT !.pc = "blocked"]
                    ELSE IF out.raised
                    THEN [boot EXCEPT !.pc = "ready", !.adapter = TRUE,
                                      !.log = Append(boot.log, out.message)]
                    ELSE [boot EXCEPT !.pc = "ready", !.adapter = TRUE]
    /\ UNCHANGED <<store, now, last, arg, web, run, read, writers>>

\* app.run(...) of flask_app, main() of db_updater: the process serves queries,
\* runs cycles
StartUp ==
    /\ boot.pc = "ready"
    /\ boot' = [boot EXCEPT !.pc = "up"]
    /\ UNCHANGED <<store, now, last, arg, web, run, read, writers>>

\* the adapter call of the station's source in a process whose module globals
\* are m: a name that was not imported raises NameError
FetchIn(m, station, ndays, up) ==
    IF station.source = "EA" THEN fetch_station_data(station.id, ndays, up)
    ELSE IF ~m.adapter
    THEN [returns |-> TRUE, raised |-> TRUE,
          message |-> "name 'fetch_historical_data' is not defined",
          data |-> [items |-> <<>>]]
    ELSE fetch_historical_data_keyed(m.NRW_KEY, station.id, ndays,
            IF "parameter_id" \in DOMAIN station THEN station.parameter_id ELSE 41, up)

\* get_station_data of a registered station in that process
GetStationDataIn(m, station_key, ndays, up) ==
    Except(STATIONS[station_key],
           AfterFetch(STATIONS[station_key],
                      FetchIn(m, STATIONS[station_key], ndays, up),
                      AdapterCall(STATIONS[station_key], ndays)))

\* get_station_data(station_key, ndays) in the started process: a query of
\* flask_app, a station of a cycle of db_updater
Serve ==
    /\ boot.pc = "up" /\ web.pc = "idle"
    /\ \E key \in DOMAIN STATIONS, up \in UpstreamAnswers :
        web' = [StationResponse(key, NoQuery, up, GetStationDataIn(boot, key, 1, up))
                  EXCEPT !.route = "call"]
    /\ UNCHANGED <<store, now, last, arg, run, read, boot, writers>>

NextStartup == ImportLibs \/ ImportNrw \/ ImportExample \/ StartUp \/ Serve \/ Respond

SpecStartup == InitStartup /\ [][NextStartup]_vars

\* C23: a process that is up has the NRW key and the NRW adapter: without the key,
\* or with an adapter that cannot be loaded, the start is aborted.
C23_AbortsStartup ==
    boot.pc = "up" => (boot.NRW_KEY = "key" /\ boot.adapter)

----------------------------------------------------------------------------
(* db_updater: update_once, sleep_until_next_quarter, main *)

\* defaults of --days and --fetch-days
RETENTION_DAYS == 7
FETCH_WINDOW_DAYS == 7

\* the rows from the n-th on inserted and the ones before it left out: what an
\* executemany that stops at its n-th statement does not leave
SaveTailFirst(st, station_key, station_meta, readings, n) ==
    LET rows == BuildRows(station_key, station_meta, readings)
    IN  executemany(st, SubSeq(rows, n, Len(rows))).store

\* executemany raising sqlite3.Error at its n-th statement: the connection is in
\* autocommit mode (isolation_level=None), the rows before the n-th stay inserted
save_readings_raising(st, station_key, station_meta, readings, n) ==
    LET rows == BuildRows(station_key, station_meta, readings)
    IN  executemany(st, SubSeq(rows, 1, n - 1)).store

\* resp.get("readings", [])
ReadingsOf(value) == IF "readings" \in DOMAIN value THEN value.readings ELSE <<>>

\* n = save_readings(conn, station_key, meta, readings); fault = 0: the database
\* works, fault = n > 0: the n-th INSERT of this call raises
TrySave(st, station_key, meta, readings, fault) ==
    IF fault > 0 /\ fault <= Len(BuildRows(station_key, meta, readings))
    THEN [blocks |-> FALSE, raised |-> TRUE,
          store |-> save_readings_raising(st, station_key, meta, readings, fault),
          n |-> 0]
    ELSE [blocks |-> FALSE, raised |-> FALSE,
          store |-> save_readings(st, station_key, meta, readings).store,
          n |-> save_readings(st, station_key, meta, readings).ret]

\* the try block of one pass of update_once's loop, after get_station_data
AfterGet(st, station_key, out, fault) ==
    IF ~out.returns
    THEN [blocks |-> TRUE, raised |-> FALSE, store |-> st, n |-> 0]
    ELSE IF out.raised
    THEN [blocks |-> FALSE, raised |-> TRUE, store |-> st, n |-> 0]
    ELSE TrySave(st, station_key, STATIONS[station_key], ReadingsOf(out.value), fault)

TryStation(st, station_key, fetch_days, up, fault) ==
    AfterGet(st, station_key, get_station_data(station_key, fetch_days, up), fault)

\* no except clause: an exception leaves update_once
Uncaught(t) ==
    [blocks |-> t.blocks, aborts |-> t.raised, caught |-> FALSE,
     store |-> t.store, n |-> t.n]

\* except Exception: per_station[station_key] = 0
Caught(t) ==
    [blocks |-> t.blocks, aborts |-> FALSE, caught |-> t.raised,
     store |-> t.store, n |-> IF t.raised THEN 0 ELSE t.n]

\* one pass without the except clause: what the loop body is not
PassUncaught(st, station_key, fetch_days, up, fault) ==
    Uncaught(TryStation(st, station_key, fetch_days, up, fault))

\* one pass of the loop: try ... except
Pass(st, station_key, fetch_days, up, fault) ==
    Caught(TryStation(st, station_key, fetch_days, up, fault))

\* the for loop of update_once has visited every station
LoopOverEarly == run.i > 1
LoopOver == run.i > Len(StationKeys)

\* the quarter-hour boundary at or before t: what next_q is not
LastQuarter(t) == (t \div 900) * 900

\* math.ceil(now / 900) * 900
NextQuarter(t) == ((t + 899) \div 900) * 900

\* upstreams of the runs: two stations have readings to give
DataStations == {"chester", "ironbridge"}

RunnerAnswers(k) ==
    IF k \in DataStations
    THEN {Ok(ItemsTwo), Ok(<<>>), Failed("network"), Failed("hang")}
    ELSE {Ok(<<>>), Failed("status")}

MaxFault == 2       \* the latest INSERT of a call that raises
MaxCycles == 2      \* how many normal cycles of a run are followed

RunnerStart == 9 * DAY

ArgsChoices ==
    [once : BOOLEAN, loop : BOOLEAN, backfill_days : {0, 14},
     days : {RETENTION_DAYS}, fetch_days : {FETCH_WINDOW_DAYS}]

InitRunner ==
    /\ store = {}
    /\ now = RunnerStart
    /\ last = NoCall
    /\ arg = NoArg
    /\ web = NoRequest
    /\ \E a \in ArgsChoices : run = [NoRunner EXCEPT !.pc = "main", !.args = a]
    /\ read = NoRead
    /\ boot = NoBoot
    /\ writers = NoWriters

\* update_once(conn, fetch_days, retention_days) is entered from call site `site`;
\* started counts the calls after the backfill
Enter(site, fetch_days) ==
    [run EXCEPT !.pc = "cycle", !.site = site, !.fetch_days = fetch_days, !.i = 1,
                !.total_inserts = 0, !.per_station = <<>>, !.deleted = 0,
                !.log = <<>>, !.raisedset = {}, !.fresh = {},
                !.started = IF site = "backfill" THEN run.started ELSE run.started + 1,
                !.backfills = IF site = "backfill" THEN run.backfills + 1
                              ELSE run.backfills]

\* main taking the loop branch whatever the flags: what it is not
EnterLoop == Enter("first", run.args.fetch_days)

\* the call of update_once that follows the optional backfill
EnterMode ==
    IF run.args.once /\ ~run.args.loop THEN Enter("once", run.args.fetch_days)
    ELSE IF run.args.loop THEN Enter("first", run.args.fetch_days)
    ELSE Enter("default", run.args.fetch_days)

\* a backfill whatever --backfill-days is: what the test is not
BackfillAlways(args) == TRUE

\* if args.backfill_days and args.backfill_days > 0
BackfillRequested(args) == args.backfill_days # 0 /\ args.backfill_days > 0

\* main after connect and ensure_schema
Main ==
    /\ run.pc = "main"
    /\ run' = IF BackfillRequested(run.args)
              THEN Enter("backfill", run.args.backfill_days)
              ELSE EnterMode
    /\ UNCHANGED <<store, now, last, arg, web, read, boot, writers>>

\* the runner after one pass of the loop
AfterPass(key, p) ==
    IF p.blocks THEN [run EXCEPT !.pc = "blocked"]
    ELSE IF p.aborts
    THEN [run EXCEPT !.pc = "crashed", !.log = Append(run.log, key),
                     !.raisedset = run.raisedset \cup {key}]
    ELSE [run EXCEPT !.i = run.i + 1,
                     !.fresh = run.fresh \cup (p.store \ store),
                     !.per_station = (key :> p.n) @@ run.per_station,
                     !.total_inserts = run.total_inserts + p.n,
                     !.log = Append(run.log, key),
                     !.raisedset = IF p.caught THEN run.raisedset \cup {key}
                                   ELSE run.raisedset]

PassStep(key, p) ==
    /\ store' = p.store
    /\ run' = AfterPass(key, p)

\* one pass of: for station_key, meta in STATIONS.items()
CycleStation ==
    /\ run.pc = "cycle" /\ ~LoopOver
    /\ \E up \in RunnerAnswers(StationKeys[run.i]), fault \in 0..MaxFault :
          PassStep(StationKeys[run.i],
                   Pass(store, StationKeys[run.i], run.fetch_days, up, fault))
    /\ UNCHANGED <<now, last, arg, web, read, boot, writers>>

\* deleted = prune_old(conn, retention_days); return {...}.  A DELETE that raises
\* leaves update_once and main.
CyclePrune ==
    /\ run.pc = "cycle" /\ LoopOver
    /\ \E db_ok \in BOOLEAN :
        LET res == prune_old(store, now, run.args.days)
        IN  IF db_ok
            THEN /\ store' = res.store
                 /\ run' = [run EXCEPT !.pc = "returned", !.deleted = res.deleted,
                                       !.log = Append(run.log, "prune")]
            ELSE /\ store' = store
                 /\ run' = [run EXCEPT !.pc = "crashed",
                                       !.log = Append(run.log, "prune")]
    /\ UNCHANGED <<now, last, arg, web, read, boot, writers>>

\* main after a call of update_once has returned
AfterCycle ==
    /\ run.pc = "returned"
    /\ run' = CASE run.site = "backfill" ->
                       [EnterMode EXCEPT !.backfilled = run.log]
                [] run.site \in {"once", "default"} -> [run EXCEPT !.pc = "exit"]
                [] OTHER -> [run EXCEPT !.pc = "sleep"]
    /\ UNCHANGED <<store, now, last, arg, web, read, boot, writers>>

\* sleep_until_next_quarter(), then the next update_once of while True
Sleep ==
    /\ run.pc = "sleep"
    /\ run.started < MaxCycles
    /\ now' = NextQuarter(now)
    /\ run' = [Enter("loop", run.args.fetch_days)
                 EXCEPT !.slept = run.slept + 1, !.slept_at = now,
                        !.woke = NextQuarter(now)]
    /\ UNCHANGED <<store, last, arg, web, read, boot, writers>>

\* time passes while the process works or sleeps: a day and five minutes
Elapse ==
    /\ now < RunnerStart + MaxTicks * DAY
    /\ now' = now + DAY + 300
    /\ UNCHANGED <<store, last, arg, web, run, read, boot, writers>>

NextRunner == Main \/ CycleStation \/ CyclePrune \/ AfterCycle \/ Sleep \/ Elapse

SpecRunner == InitRunner /\ [][NextRunner]_vars

----------------------------------------------------------------------------
(* Properties of the ingestion cycle *)

FullCycle == StationKeys \o <<"prune">>

\* C5: in every ingestion cycle prune_old runs exactly once, and only after the
\* fetch-and-upsert of every station of the cycle has been attempted: no prune
\* before or between the station passes.
C5_PruneLast ==
    /\ Len(run.log) <= Len(FullCycle)
    /\ \A j \in DOMAIN run.log : run.log[j] = FullCycle[j]
    /\ run.pc = "returned" => run.log = FullCycle

\* a finished cycle that inserted rows and whose prune removed rows
C5_Witness ==
    run.pc = "returned" /\ run.total_inserts > 0 /\ run.deleted > 0

\* C7: an exception raised while fetching or saving one station's readings does not
\* abort the cycle: the station is recorded with 0 insertions, every other station
\* is still fetched and saved, and prune_old runs at the end of the cycle.
C7_StationErrorContained ==
    /\ run.pc = "crashed" => run.log = FullCycle
    /\ \A k \in run.raisedset :
          k \in DOMAIN run.per_station /\ run.per_station[k] = 0
    /\ run.pc = "returned" =>
          /\ run.log = FullCycle
          /\ DOMAIN run.per_station = AllKeys

\* a finished cycle in which the save of chester raised after its first row, the
\* rows of ironbridge were saved and counted, and the prune ran
C7_Witness ==
    /\ run.pc = "returned"
    /\ run.raisedset = {"chester"}
    /\ \E r \in store : r.station_key = "chester"
    /\ run.per_station["ironbridge"] = 2
    /\ run.total_inserts = 2

\* C15: started without --loop (with --once or with no mode flag), the runner
\* makes, after the optional backfill, exactly one normal call of update_once,
\* which passes every station and prunes, and then leaves main: it never sleeps
\* and starts no second cycle.
C15_OnceMode ==
    (run.pc \notin {"none", "main"} /\ ~run.args.loop) =>
        /\ run.pc # "sleep" /\ run.slept = 0
        /\ run.started <= 1
        /\ run.site \in {"backfill", "once", "default"}
        /\ run.site = "backfill" <=> run.started = 0
        /\ run.site = "once" => run.args.once
        /\ run.pc = "exit" =>
               /\ run.started = 1
               /\ run.log = FullCycle

\* a run with --once and a backfill has left main after its one normal cycle,
\* which inserted nothing the backfill had not
C15_Witness ==
    /\ run.pc = "exit"
    /\ run.args.once /\ ~run.args.loop /\ run.args.backfill_days > 0
    /\ run.site = "once" /\ run.started = 1 /\ run.slept = 0
    /\ run.log = FullCycle
    /\ store # {} /\ run.total_inserts = 0

\* C16: started with --loop, the runner makes its first normal call of update_once
\* without sleeping and from then on alternates sleep and cycle: the n-th cycle
\* starts when the (n-1)-th sleep has returned, a sleep begins only after a cycle
\* has returned and ends at the first multiple of 900 s not before its
\* beginning, and main never returns.
C16_LoopMode ==
    (run.pc \notin {"none", "main"} /\ run.args.loop) =>
        /\ run.pc # "exit"
        /\ run.site \in {"backfill", "first", "loop"}
        /\ run.site = "backfill" => run.started = 0 /\ run.slept = 0
        /\ run.site = "first" => run.started = 1 /\ run.slept = 0
        /\ run.site = "loop" => run.slept >= 1 /\ run.started = run.slept + 1
        /\ run.pc = "sleep" => run.site # "backfill" /\ run.log = FullCycle
        /\ run.slept >= 1 =>
               /\ run.woke % 900 = 0
               /\ run.slept_at <= run.woke /\ run.woke < run.slept_at + 900
               /\ run.woke <= now

\* the second cycle of a loop run has returned: the sleep before it began five
\* minutes past a quarter and ended at the next quarter
C16_Witness ==
    /\ run.args.loop /\ run.pc = "returned" /\ run.site = "loop"
    /\ run.started = 2 /\ run.slept = 1
    /\ run.slept_at % 900 = 300
    /\ run.woke = run.slept_at + 600

\* C28: with --backfill-days greater than 0 the runner makes exactly one backfill
\* call of update_once, whose fetch window is the backfill window, and the first
\* normal cycle starts only when that call has passed every station and pruned;
\* without it no backfill call is made.  Normal cycles fetch --fetch-days.
C28_BackfillOnce ==
    run.pc \notin {"none", "main"} =>
        /\ run.backfills = IF run.args.backfill_days > 0 THEN 1 ELSE 0
        /\ run.site = "backfill" =>
               run.fetch_days = run.args.backfill_days /\ run.started = 0
        /\ run.site # "backfill" => run.fetch_days = run.args.fetch_days
        /\ (run.started >= 1 /\ run.args.backfill_days > 0) =>
               run.backfilled = FullCycle

\* a loop run with a backfill of 14 days is in its first normal cycle: the
\* backfill has pruned and left rows in the store
C28_Witness ==
    /\ run.args.loop /\ run.args.backfill_days = 14
    /\ run.pc = "cycle" /\ run.site = "first" /\ run.started = 1
    /\ run.fetch_days = FETCH_WINDOW_DAYS
    /\ run.backfills = 1 /\ run.backfilled = FullCycle
    /\ store # {}

\* a step of main that can be taken is taken: the process runs
SpecRunnerFair == SpecRunner /\ WF_vars(NextRunner)

\* C29: in a loop run every cycle that has started is followed by the sleep
\* before the next one, whatever fails in it, unless an upstream never
\* answers.
C29_LoopSurvives ==
    (run.args.loop /\ run.pc = "cycle") ~> (run.pc \in {"sleep", "blocked"})

----------------------------------------------------------------------------
(* update_once against upstreams that answer with the readings of the window asked for *)

\* params["since"] of the EA request: strftime('%Y-%m-%dT00:00:00Z') of
\* now - ndays days, the midnight UTC at or before it
SinceParam(t, ndays) == ((t - ndays * DAY) \div DAY) * DAY

\* params["from"] of the NRW request: strftime('%Y-%m-%d') of
\* datetime.now() - timedelta(days=ndays), the local date; the day begins at its
\* midnight
FromParam(t, ndays, tz) == LocalMidnight(t - ndays * DAY, tz)

\* the earliest instant the adapter of the station's source asks for
WindowStart(station, t, ndays) ==
    IF station.source = "EA" THEN SinceParam(t, ndays)
    ELSE FromParam(t, ndays, arg.tz)

\* what every upstream holds: a reading a quarter before midnight of day 2, one a
\* quarter after it, one a quarter after its noon, one a quarter before day 9
Series ==
    <<[dateTime |-> Iso(2 * DAY - 900, 0), value |-> 10],
      [dateTime |-> Iso(2 * DAY + 900, 0), value |-> 20],
      [dateTime |-> Iso(2 * DAY + 44100, 0), value |-> 30],
      [dateTime |-> Iso(9 * DAY - 900, 0), value |-> 40]>>

\* the upstream's answer to a request for its readings since an instant
ReadingsSince(series, start) ==
    Ok(SelectSeq(series, LAMBDA r : Instant(r) >= start))

\* the runs start at midnight or at noon of day 9
WindowStarts == {RunnerStart, RunnerStart + 43200}

InitWindow ==
    /\ store = {}
    /\ now \in WindowStarts
    /\ last = NoCall
    /\ arg = NoArg
    /\ web = NoRequest
    /\ \E a \in ArgsChoices : run = [NoRunner EXCEPT !.pc = "main", !.args = a]
    /\ read = NoRead
    /\ boot = NoBoot
    /\ writers = NoWriters

\* one pass of the loop of update_once; the upstream answers with what it holds
\* of the window
WindowStation ==
    /\ run.pc = "cycle" /\ ~LoopOver
    /\ PassStep(StationKeys[run.i],
                Pass(store, StationKeys[run.i], run.fetch_days,
                     ReadingsSince(Series, WindowStart(STATIONS[StationKeys[run.i]],
                                                       now, run.fetch_days)),
                     0))
    /\ UNCHANGED <<now, last, arg, web, read, boot, writers>>

\* time passes: a day and five minutes, once
ElapseWindow ==
    /\ now < RunnerStart + DAY
    /\ now' = now + DAY + 300
    /\ UNCHANGED <<store, last, arg, web, run, read, boot, writers>>

NextWindow ==
    Main \/ WindowStation \/ CyclePrune \/ AfterCycle \/ Sleep \/ ElapseWindow

SpecWindow == InitWindow /\ [][NextWindow]_vars

\* C30: in a cycle whose fetch window is the retention window, every row the
\* cycle inserted is in the store when the cycle has returned, and a later cycle
\* of the run, the upstreams holding what they held, inserts nothing.
C30_InsertedRowsSurvive ==
    (run.pc = "returned" /\ run.fetch_days = run.args.days) =>
        /\ run.fresh \subseteq store
        /\ run.site = "loop" => run.total_inserts = 0

----------------------------------------------------------------------------
(* Order of the writes of save_readings *)

\* C26: save_readings with the readings list of the call and then with any other
\* list leaves the store that the two calls leave in the other order, and a
\* list that holds the readings of the call in another order leaves the store
\* that the list of the call leaves.
C26_OrderInsensitive ==
    \A other \in Batches :
        /\ save_readings(save_readings(store, arg.key, STATIONS[arg.key],
                                       arg.batch).store,
                         arg.key, STATIONS[arg.key], other).store
             = save_readings(save_readings(store, arg.key, STATIONS[arg.key],
                                           other).store,
                             arg.key, STATIONS[arg.key], arg.batch).store
        /\ (/\ Len(other) = Len(arg.batch)
            /\ \A r \in Readings : Count(other, r) = Count(arg.batch, r))
               => save_readings(store, arg.key, STATIONS[arg.key], other).store
                    = save_readings(store, arg.key, STATIONS[arg.key],
                                    arg.batch).store

----------------------------------------------------------------------------
(* Two processes in save_readings on one database file *)

\* readings the two processes fetched: two name one instant with different
\* values, one names another instant
WriterReadings ==
    {[dateTime |-> Iso(2 * DAY - 3600, 0), value |-> 10],
     [dateTime |-> Iso(2 * DAY, 3600), value |-> 20],
     [dateTime |-> Iso(2 * DAY, 0), value |-> 30]}

WriterBatches == SeqsUpTo(WriterReadings, MaxBatch)

\* a process in save_readings(conn, station_key, meta, readings): rows is built,
\* the cursor is at statement i of executemany
Writer(key, readings) ==
    [key |-> key, rows |-> BuildRows(key, STATIONS[key], readings), i |-> 1,
     rowcount |-> 0, pc |-> "executemany", ret |-> 0]

\* both connections are open (sqlite3.connect(..., isolation_level=None)); the
\* store holds nothing or one row of an earlier run
InitWriters ==
    /\ store \in EarlierStores
    /\ now = StartNow
    /\ last = [NoCall EXCEPT !.before = store]
    /\ arg = NoArg
    /\ web = NoRequest
    /\ run = NoRunner
    /\ read = NoRead
    /\ boot = NoBoot
    /\ writers \in {<<Writer("chester", a), Writer(k, b)>> :
                       a \in WriterBatches, b \in WriterBatches, k \in StoreKeys}

\* one INSERT OR IGNORE of a connection in autocommit mode: the statement is a
\* transaction of its own, under the write lock of the database file; its
\* changes are added to the rowcount of the connection's cursor
WriterInsert(w) ==
    /\ writers[w].pc = "executemany"
    /\ writers[w].i <= Len(writers[w].rows)
    /\ LET one == InsertOrIgnore(store, writers[w].rows[writers[w].i])
       IN  /\ store' = one.store
           /\ writers' = [writers EXCEPT
                            ![w].i = writers[w].i + 1,
                            ![w].rowcount = writers[w].rowcount + one.changes]
    /\ UNCHANGED <<now, last, arg, web, run, read, boot>>

\* conn.commit(); return cur.rowcount
WriterReturn(w) ==
    /\ writers[w].pc = "executemany"
    /\ writers[w].i > Len(writers[w].rows)
    /\ writers' = [writers EXCEPT ![w].pc = "returned",
                                  ![w].ret = writers[w].rowcount]
    /\ UNCHANGED <<store, now, last, arg, web, run, read, boot>>

NextWriters ==
    \/ \E w \in DOMAIN writers : WriterInsert(w)
    \/ \E w \in DOMAIN writers : WriterReturn(w)

SpecWriters == InitWriters /\ [][NextWriters]_vars

\* C27: whatever the order of the statements of two processes writing at once,
\* the store holds every (station_key, ts_utc) once, every row that was added
\* was counted by one of the two, and when both calls have returned their
\* return values add up to the number of rows added.
C27_ConcurrentWriters ==
    /\ \A r1, r2 \in store : SamePK(r1, r2) => r1 = r2
    /\ last.before \subseteq store
    /\ writers[1].rowcount + writers[2].rowcount = Cardinality(store \ last.before)
    /\ (writers[1].pc = "returned" /\ writers[2].pc = "returned") =>
           writers[1].ret + writers[2].ret = Cardinality(store \ last.before)

\* the two processes wrote the same two readings of one station and each has
\* returned 1: each inserted one of the rows
C27_Witness ==
    /\ writers[1].pc = "returned" /\ writers[2].pc = "returned"
    /\ writers[1].key = writers[2].key
    /\ writers[1].rows = writers[2].rows
    /\ Len(writers[1].rows) = 2
    /\ writers[1].ret = 1 /\ writers[2].ret = 1
    /\ Cardinality(store \ last.before) = 2

----------------------------------------------------------------------------
(* A cycle that is interrupted, and run again *)

MaxKills == 1       \* how often the process is killed in a cycle

\* what the upstream of a station with data holds: two readings, or three of which
\* two name one instant with different values
ItemsClash == <<[dateTime |-> Iso(2 * DAY, 0), value |-> 20],
                [dateTime |-> Iso(2 * DAY + 3600, 3600), value |-> 10],
                [dateTime |-> Iso(3 * DAY, 0), value |-> 30]>>

HeldChoices == {ItemsTwo, ItemsClash}

\* the upstreams answer every run alike
Held(key) == IF key \in DataStations THEN Ok(arg.batch) ELSE Ok(<<>>)

\* python db_updater.py --once, the store as an earlier run left it
InitCrash ==
    /\ store \in EarlierStores
    /\ now = RunnerStart
    /\ last = [NoCall EXCEPT !.before = store]
    /\ arg \in [key : {""}, batch : HeldChoices, tz : {0}]
    /\ web = NoRequest
    /\ run = [NoRunner EXCEPT !.pc = "main",
                !.args = [once |-> TRUE, loop |-> FALSE, backfill_days |-> 0,
                          days |-> RETENTION_DAYS, fetch_days |-> FETCH_WINDOW_DAYS]]
    /\ read = NoRead
    /\ boot = NoBoot
    /\ writers = NoWriters

\* one pass of the loop of update_once
HeldStation ==
    /\ run.pc = "cycle" /\ ~LoopOver
    /\ PassStep(StationKeys[run.i],
                Pass(store, StationKeys[run.i], run.fetch_days,
                     Held(StationKeys[run.i]), 0))
    /\ UNCHANGED <<now, last, arg, web, read, boot, writers>>

\* the process is killed between two passes of the loop, or between the last
\* pass and prune_old
Kill ==
    /\ run.pc = "cycle" /\ run.kills < MaxKills
    /\ run' = [run EXCEPT !.pc = "killed", !.kills = run.kills + 1]
    /\ UNCHANGED <<store, now, last, arg, web, read, boot, writers>>

\* the process is killed inside executemany, before its n-th INSERT: the
\* statements before it are committed (autocommit)
KillInSave ==
    /\ run.pc = "cycle" /\ ~LoopOver /\ run.kills < MaxKills
    /\ \E n \in 1..MaxFault :
        LET key == StationKeys[run.i]
            out == get_station_data(key, run.fetch_days, Held(key))
        IN  /\ n <= Len(BuildRows(key, STATIONS[key], ReadingsOf(out.value)))
            /\ store' = save_readings_raising(store, key, STATIONS[key],
                                              ReadingsOf(out.value), n)
    /\ run' = [run EXCEPT !.pc = "killed", !.kills = run.kills + 1]
    /\ UNCHANGED <<now, last, arg, web, read, boot, writers>>

\* the command is run again
Restart ==
    /\ run.pc \in {"killed", "crashed"}
    /\ run' = [NoRunner EXCEPT !.pc = "main", !.args = run.args, !.kills = run.kills]
    /\ UNCHANGED <<store, now, last, arg, web, read, boot, writers>>

\* time passes before the command is run again: a day and five minutes
ElapseDown ==
    /\ run.pc \in {"killed", "crashed"}
    /\ now < RunnerStart + DAY
    /\ now' = now + DAY + 300
    /\ UNCHANGED <<store, last, arg, web, run, read, boot, writers>>

NextCrash ==
    \/ Main \/ HeldStation \/ Kill \/ KillInSave \/ Restart
    \/ CyclePrune \/ AfterCycle \/ ElapseDown

SpecCrash == InitCrash /\ [][NextCrash]_vars

\* the for loop of update_once from station i on, nothing failing
RECURSIVE SaveFrom(_, _, _)
SaveFrom(st, i, fetch_days) ==
    IF i > Len(StationKeys) THEN st
    ELSE SaveFrom(Pass(st, StationKeys[i], fetch_days, Held(StationKeys[i]), 0).store,
                  i + 1, fetch_days)

\* the store after update_once(conn, fetch_days, retention_days) at time t
update_once(st, t, fetch_days, retention_days) ==
    prune_old(SaveFrom(st, 1, fetch_days), t, retention_days).store

\* the rows save_readings builds of what the upstream of a station holds
FetchedRows(key) ==
    Range(BuildRows(key, STATIONS[key],
                    ReadingsOf(get_station_data(key, FETCH_WINDOW_DAYS, Held(key)).value)))

\* C25: wherever a cycle is interrupted, the store holds at most one row per
\* (station_key, ts_utc) and every row is a row it held before or a reading that
\* was fetched; and when the cycle, run again against the same upstreams, has
\* returned, the store is the one a cycle that was never interrupted leaves.
C25_InterruptedCycle ==
    /\ \A r1, r2 \in store : SamePK(r1, r2) => r1 = r2
    /\ \A r \in store : r \in last.before \/ r \in FetchedRows(r.station_key)
    /\ run.pc = "returned" =>
           store = update_once(last.before, now, run.args.fetch_days, run.args.days)

\* a process was killed inside executemany after its first INSERT; the second
\* run has returned, inserted the remaining rows, and the store is the one of
\* an uninterrupted cycle
C25_Witness ==
    /\ run.pc = "returned" /\ run.kills = 1
    /\ arg.batch = ItemsClash
    /\ run.total_inserts > 0
    /\ run.fresh # store \ last.before
    /\ run.fresh \subseteq store
    /\ store = update_once(last.before, now, run.args.fetch_days, run.args.days)

====
